---- MODULE Spec2Model ----
(***************************************************************************)
(* Cache simulator of riscv-isa-sim (riscv/cachesim.h, riscv/cachesim.cc): *)
(* the tag array with its statistics counters, the replacement policies    *)
(* (random, linear evict, fully associative, Hawkeye), the configuration   *)
(* string parser and the calls a cache makes to its miss handler.          *)
(*                                                                         *)
(* Representation.                                                         *)
(*  - A 64-bit tag word is the record [v, d, p]: bit 63 (VALID), bit 62    *)
(*    (DIRTY) and bits 0..61 (the payload addr >> idx_shift).  The word 0  *)
(*    is [v |-> FALSE, d |-> FALSE, p |-> 0].  Addresses stay below        *)
(*    2^AddrBits, far from bit 62.                                         *)
(*  - A C string is a tuple of one-character strings.                      *)
(*  - A size_t made from a negative int n stands for 2^64 + n; it is kept  *)
(*    as the negative integer n and every comparison on it is unsigned.    *)
(*  - The 32-bit LFSR register is the pair of its 16-bit halves.           *)
(***************************************************************************)
EXTENDS Integers, Sequences, FiniteSets, TLC

VARIABLES config, cache, twin, ev, tev, stream

vars == <<config, cache, twin, ev, tev, stream>>

(***************************************************************************)
(* Bit operations on naturals.                                             *)
(***************************************************************************)
RECURSIVE Pow2(_)
Pow2(n) == IF n = 0 THEN 1 ELSE 2 * Pow2(n - 1)

RECURSIVE BitAnd(_, _)
BitAnd(a, b) ==
    IF a = 0 \/ b = 0 THEN 0
    ELSE (IF a % 2 = 1 /\ b % 2 = 1 THEN 1 ELSE 0) + 2 * BitAnd(a \div 2, b \div 2)

RECURSIVE BitXor(_, _)
BitXor(a, b) ==
    IF a = 0 THEN b
    ELSE IF b = 0 THEN a
    ELSE (IF a % 2 # b % 2 THEN 1 ELSE 0) + 2 * BitXor(a \div 2, b \div 2)

\* Width of the addresses the model feeds to a cache.
AddrBits == 8

\* ~x within the address width
BitNot(x) == (Pow2(AddrBits) - 1) - x

ShiftRight(x, n) == x \div Pow2(n)

ShiftLeft(x, n) == x * Pow2(n)

(***************************************************************************)
(* lfsr_t                                                                  *)
(***************************************************************************)
lfsr_t == [hi |-> 0, lo |-> 1]

\* reg = (reg>>1) ^ (-(reg&1) & 0xd0000001), on the two 16-bit halves
lfsr_next(r) ==
    LET odd == r.lo % 2 = 1
        shi == r.hi \div 2
        slo == (r.lo \div 2) + (r.hi % 2) * 32768
    IN  IF odd THEN [hi |-> BitXor(shi, 53248), lo |-> BitXor(slo, 1)]
               ELSE [hi |-> shi, lo |-> slo]

\* a 32-bit value modulo a small positive m
lfsr_mod(r, m) == (((r.hi % m) * (65536 % m)) + (r.lo % m)) % m

(***************************************************************************)
(* C strings: strchr, atoi, strcmp                                         *)
(***************************************************************************)
\* index of the first ch at or after position from, 0 for NULL
RECURSIVE strchr(_, _, _)
strchr(s, from, ch) ==
    IF from > Len(s) THEN 0
    ELSE IF s[from] = ch THEN from
    ELSE strchr(s, from + 1, ch)

DigitValue(c) ==
    CASE c = "0" -> 0 [] c = "1" -> 1 [] c = "2" -> 2 [] c = "3" -> 3
      [] c = "4" -> 4 [] c = "5" -> 5 [] c = "6" -> 6 [] c = "7" -> 7
      [] c = "8" -> 8 [] c = "9" -> 9 [] OTHER -> -1

IsDigit(c) == DigitValue(c) >= 0

RECURSIVE atoi_digits(_, _, _)
atoi_digits(s, i, acc) ==
    IF i > Len(s) \/ ~IsDigit(s[i]) THEN acc
    ELSE atoi_digits(s, i + 1, 10 * acc + DigitValue(s[i]))

\* isspace in the C locale: space, \t, \n, \v, \f, \r
IsSpace(c) == c \in {" ", "\t", "\n", "", "\f", "\r"}

\* the leading white space atoi skips
RECURSIVE atoi_skip(_, _)
atoi_skip(s, i) == IF i <= Len(s) /\ IsSpace(s[i]) THEN atoi_skip(s, i + 1) ELSE i

atoi(s) ==
    LET i == atoi_skip(s, 1)
    IN  IF i <= Len(s) /\ s[i] = "-" THEN 0 - atoi_digits(s, i + 1, 0)
        ELSE IF i <= Len(s) /\ s[i] = "+" THEN atoi_digits(s, i + 1, 0)
        ELSE atoi_digits(s, i, 0)

StrLinear == <<"l", "i", "n", "e", "a", "r">>

StrHawkeye == <<"h", "a", "w", "k", "e", "y", "e">>

(***************************************************************************)
(* Constants of the Hawkeye policy                                         *)
(***************************************************************************)
MAX_RRPV == 7

\* optgen.h and hawkeye_predictor.h are not part of the sources at hand;
\* the sizes below are scaled so that the timer and the ring wrap in short
\* runs, the counter width and mid-point are the specification's.
OPTGEN_VECTOR_SIZE == 4

TIMER_SIZE == 8

PRED_TABLE_SIZE == 4

PRED_MAX == 7

PRED_MID == 4

(***************************************************************************)
(* Results of construction                                                 *)
(***************************************************************************)
NoCache == [kind |-> "none"]

\* help(): the usage message on the error stream, then exit(1)
help == [kind |-> "exit", usage |-> TRUE, status |-> 1]

\* new[] of a size that does not fit: std::bad_alloc, never caught
bad_alloc == [kind |-> "abort", usage |-> FALSE, status |-> 134]

ZeroTag == [v |-> FALSE, d |-> FALSE, p |-> 0]

\* sets & (sets-1) as a truth value, on a size_t
AndPredNonZero(n) == IF n < 0 THEN TRUE ELSE n > 0 /\ BitAnd(n, n - 1) # 0

\* linesz < 8 on a size_t
LessThan8(n) == n >= 0 /\ n < 8

RECURSIVE idx_shift_of(_)
idx_shift_of(x) == IF x > 1 THEN 1 + idx_shift_of(x \div 2) ELSE 0

\* cache_sim_t::init, with the members the constructor sets
init(sets, ways, linesz) ==
    IF sets = 0 \/ AndPredNonZero(sets) THEN help
    ELSE IF LessThan8(linesz) \/ AndPredNonZero(linesz) THEN help
    ELSE IF ways < 0 THEN bad_alloc
    ELSE [kind |-> "cache", policy |-> "random",
          sets |-> sets, ways |-> ways, linesz |-> linesz,
          idx_shift |-> idx_shift_of(linesz),
          lfsr |-> lfsr_t,
          tags |-> [i \in 0 .. (sets * ways - 1) |-> ZeroTag],
          read_accesses |-> 0, read_misses |-> 0, bytes_read |-> 0,
          write_accesses |-> 0, write_misses |-> 0, bytes_written |-> 0,
          writebacks |-> 0,
          miss_handler |-> FALSE,
          fa_tags |-> << >>,
          evict_candidate |-> << >>,
          hk |-> << >>]

cache_sim_t(sets, ways, linesz) == init(sets, ways, linesz)

fa_cache_sim_t(ways, linesz) ==
    LET c == cache_sim_t(1, ways, linesz)
    IN  IF c.kind # "cache" THEN c ELSE [c EXCEPT !.policy = "fa"]

linear_evict_cache_sim_t(sets, ways, linesz) ==
    LET c == cache_sim_t(sets, ways, linesz)
    IN  IF c.kind # "cache" THEN c
        ELSE [c EXCEPT !.policy = "linear",
                       !.evict_candidate = [s \in 0 .. (sets - 1) |-> 0]]

\* OPTgen::init(size): an empty ring of occupancy counters
OPTgen_init(size) ==
    [CACHE_SIZE |-> size,
     liveness |-> [q \in 0 .. (OPTGEN_VECTOR_SIZE - 1) |-> 0]]

\* a uint64_t as four 16-bit limbs, most significant first; n is the value
\* when n >= 0 and the value minus 2^64 when -65536 <= n < 0
uint64_t(n) ==
    IF n >= 0 THEN <<0, 0, n \div 65536, n % 65536>>
    ELSE <<65535, 65535, 65535, 65536 + n>>

\* n < u for an unsigned int n and a uint64_t u
uint64_less(n, u) ==
    \/ u[1] > 0
    \/ u[2] > 0
    \/ u[3] > n \div 65536
    \/ u[3] = n \div 65536 /\ u[4] > n % 65536

\* ways - 2 on a size_t: with one way it wraps to 2^64 - 1, with none to
\* 2^64 - 2
optgen_capacity(ways) == uint64_t(ways - 2)

HAWKEYE_PC_PREDICTOR == [h \in 0 .. (PRED_TABLE_SIZE - 1) |-> PRED_MID]

hawkeye_cache_sim_t(sets, ways, linesz) ==
    LET c == cache_sim_t(sets, ways, linesz)
    IN  IF c.kind # "cache" THEN c
        ELSE [c EXCEPT !.policy = "hawkeye",
                !.hk = [rrpv |-> [s \in 0 .. (sets - 1) |-> [w \in 0 .. (ways - 1) |-> MAX_RRPV]],
                        signatures |-> [s \in 0 .. (sets - 1) |-> [w \in 0 .. (ways - 1) |-> 0]],
                        perset_timer |-> [s \in 0 .. (sets - 1) |-> 0],
                        perset_optgen |-> [s \in 0 .. (sets - 1) |-> OPTgen_init(optgen_capacity(ways))],
                        demand_predictor |-> HAWKEYE_PC_PREDICTOR,
                        addr_history |-> [s \in 0 .. (sets - 1) |-> << >>]]]

\* cache_sim_t::construct
construct(cfg) ==
    LET wp0 == strchr(cfg, 1, ":")
        wp == wp0 + 1
        bp0 == strchr(cfg, wp, ":")
        bp == bp0 + 1
        t0 == strchr(cfg, bp, ":")
        type == t0 + 1
        sets == atoi(SubSeq(cfg, 1, wp - 1))
        ways == atoi(SubSeq(cfg, wp, bp - 1))
        linesz == IF t0 # 0 THEN atoi(SubSeq(cfg, bp, type - 1))
                  ELSE atoi(SubSeq(cfg, bp, Len(cfg)))
        typestr == SubSeq(cfg, type, Len(cfg))
    IN  IF wp0 = 0 THEN help
        ELSE IF bp0 = 0 THEN help
        ELSE IF t0 # 0 /\ typestr = StrLinear
             THEN linear_evict_cache_sim_t(sets, ways, linesz)
        ELSE IF t0 # 0 /\ typestr = StrHawkeye
             THEN hawkeye_cache_sim_t(sets, ways, linesz)
        ELSE IF (ways > 4 \/ ways < 0) /\ sets = 1
             THEN fa_cache_sim_t(ways, linesz)
        ELSE cache_sim_t(sets, ways, linesz)

(***************************************************************************)
(* Ordered maps (std::map): functions whose domain is the set of keys      *)
(***************************************************************************)
map_insert(m, k, x) == [j \in (DOMAIN m) \cup {k} |-> IF j = k THEN x ELSE m[j]]

map_erase(m, k) == [j \in (DOMAIN m) \ {k} |-> m[j]]

MinOf(S) == CHOOSE x \in S : \A y \in S : x <= y

MaxOf(S) == CHOOSE x \in S : \A y \in S : x >= y

\* the key at position n (from 0) in iteration order, ascending
RECURSIVE map_advance(_, _)
map_advance(keys, n) ==
    IF n = 0 THEN MinOf(keys) ELSE map_advance(keys \ {MinOf(keys)}, n - 1)

(***************************************************************************)
(* Address decomposition and tag words                                     *)
(***************************************************************************)
tag_payload(c, addr) == ShiftRight(addr, c.idx_shift)

set_index(c, addr) == BitAnd(ShiftRight(addr, c.idx_shift), c.sets - 1)

\* the tag check_tag looks for: (addr >> idx_shift) | VALID
lookup_tag(c, addr) == [v |-> TRUE, d |-> FALSE, p |-> tag_payload(c, addr)]

\* the tag word victimize installs: (addr >> idx_shift) | VALID
new_tag_dirty(c, addr) == [v |-> TRUE, d |-> TRUE, p |-> tag_payload(c, addr)]

new_tag_novalid(c, addr) == [v |-> FALSE, d |-> FALSE, p |-> tag_payload(c, addr)]

new_tag(c, addr) == [v |-> TRUE, d |-> FALSE, p |-> tag_payload(c, addr)]

\* tag == (word & ~DIRTY)
tag_match_nomask(tag, word) == tag = word

tag_match(tag, word) == tag = [word EXCEPT !.d = FALSE]

\* word | DIRTY
or_dirty_dropped(word) == word

or_dirty(word) == [word EXCEPT !.d = TRUE]

\* (victim & (VALID | DIRTY)) == (VALID | DIRTY)
valid_dirty(word) == word.v /\ word.d

NULL == -1

(***************************************************************************)
(* cache_sim_t: check_tag and victimize of the default (random) policy     *)
(***************************************************************************)
\* the position in tags of the hit way, or NULL
cache_sim_t_check_tag(c, addr) ==
    LET idx == set_index(c, addr)
        tag == lookup_tag(c, addr)
        hits == {i \in 0 .. (c.ways - 1) : tag_match(tag, c.tags[idx * c.ways + i])}
    IN  IF hits = {} THEN NULL ELSE idx * c.ways + MinOf(hits)

NoPolicyEvent == [path |-> 0, way |-> -1, old_sig |-> 0, dec_pc |-> -1]

cache_sim_t_victimize_noset(c, addr) ==
    LET reg == lfsr_next(c.lfsr)
        way == lfsr_mod(reg, c.ways)
    IN  [c |-> [c EXCEPT !.lfsr = reg, !.tags[way] = new_tag(c, addr)],
         victim |-> c.tags[way],
         pe |-> [NoPolicyEvent EXCEPT !.way = way]]

cache_sim_t_victimize(c, addr) ==
    LET idx == set_index(c, addr)
        reg == lfsr_next(c.lfsr)
        way == lfsr_mod(reg, c.ways)
    IN  [c |-> [c EXCEPT !.lfsr = reg, !.tags[idx * c.ways + way] = new_tag(c, addr)],
         victim |-> c.tags[idx * c.ways + way],
         pe |-> [NoPolicyEvent EXCEPT !.way = way]]

(***************************************************************************)
(* fa_cache_sim_t                                                          *)
(***************************************************************************)
\* the key of the hit entry, or NULL
fa_cache_sim_t_check_tag(c, addr) ==
    IF tag_payload(c, addr) \in DOMAIN c.fa_tags THEN tag_payload(c, addr) ELSE NULL

fa_cache_sim_t_victimize_noerase(c, addr) ==
    LET full == Cardinality(DOMAIN c.fa_tags) = c.ways
        reg == IF full THEN lfsr_next(c.lfsr) ELSE c.lfsr
        it == map_advance(DOMAIN c.fa_tags, lfsr_mod(reg, c.ways))
        old_tag == IF full THEN c.fa_tags[it] ELSE ZeroTag
    IN  [c |-> [c EXCEPT !.lfsr = reg,
                         !.fa_tags = map_insert(c.fa_tags, tag_payload(c, addr), new_tag(c, addr))],
         victim |-> old_tag,
         pe |-> NoPolicyEvent]

fa_cache_sim_t_victimize(c, addr) ==
    LET full == Cardinality(DOMAIN c.fa_tags) = c.ways
        reg == IF full THEN lfsr_next(c.lfsr) ELSE c.lfsr
        it == map_advance(DOMAIN c.fa_tags, lfsr_mod(reg, c.ways))
        old_tag == IF full THEN c.fa_tags[it] ELSE ZeroTag
        kept == IF full THEN map_erase(c.fa_tags, it) ELSE c.fa_tags
    IN  [c |-> [c EXCEPT !.lfsr = reg,
                         !.fa_tags = map_insert(kept, tag_payload(c, addr), new_tag(c, addr))],
         victim |-> old_tag,
         pe |-> NoPolicyEvent]

(***************************************************************************)
(* linear_evict_cache_sim_t                                                *)
(***************************************************************************)
linear_evict_cache_sim_t_victimize_stuck(c, addr) ==
    LET idx == set_index(c, addr)
        way == c.evict_candidate[idx]
    IN  [c |-> [c EXCEPT !.tags[idx * c.ways + way] = new_tag(c, addr)],
         victim |-> c.tags[idx * c.ways + way],
         pe |-> [NoPolicyEvent EXCEPT !.way = way]]

linear_evict_cache_sim_t_victimize(c, addr) ==
    LET idx == set_index(c, addr)
        way == c.evict_candidate[idx]
    IN  [c |-> [c EXCEPT !.evict_candidate[idx] = (c.evict_candidate[idx] + 1) % c.ways,
                         !.tags[idx * c.ways + way] = new_tag(c, addr)],
         victim |-> c.tags[idx * c.ways + way],
         pe |-> [NoPolicyEvent EXCEPT !.way = way]]

(***************************************************************************)
(* OPTgen, ADDR_INFO and HAWKEYE_PC_PREDICTOR (optgen.h,                   *)
(* hawkeye_predictor.h), as the specification describes them               *)
(***************************************************************************)
\* the quanta of the interval (last_quanta, curr_quanta], around the ring
optgen_interval(curr_quanta, last_quanta) ==
    LET d == (curr_quanta + OPTGEN_VECTOR_SIZE - last_quanta) % OPTGEN_VECTOR_SIZE
    IN  {(last_quanta + k) % OPTGEN_VECTOR_SIZE : k \in 1 .. d}

\* OPTgen::should_cache: the answer
OPTgen_should_cache(o, curr_quanta, last_quanta) ==
    \A q \in optgen_interval(curr_quanta, last_quanta) : uint64_less(o.liveness[q], o.CACHE_SIZE)

\* OPTgen::should_cache: the engine afterwards (the interval is filled on a yes)
OPTgen_after_should_cache(o, curr_quanta, last_quanta) ==
    IF OPTgen_should_cache(o, curr_quanta, last_quanta)
    THEN [o EXCEPT !.liveness =
            [q \in DOMAIN o.liveness |->
                IF q \in optgen_interval(curr_quanta, last_quanta)
                THEN o.liveness[q] + 1 ELSE o.liveness[q]]]
    ELSE o

\* OPTgen::add_access: a reference at this quantum opens it afresh
OPTgen_add_access(o, curr_quanta) == [o EXCEPT !.liveness[curr_quanta] = 0]

ADDR_INFO_init(curr_quanta) ==
    [last_quanta |-> 0, PC |-> 0, prediction |-> FALSE, lru |-> 0]

ADDR_INFO_update(e, curr_quanta, pc, prediction) ==
    [e EXCEPT !.last_quanta = curr_quanta, !.PC = pc, !.prediction = prediction]

pc_hash(pc) == pc % PRED_TABLE_SIZE

predictor_increment(t, pc) ==
    [t EXCEPT ![pc_hash(pc)] = IF @ < PRED_MAX THEN @ + 1 ELSE PRED_MAX]

predictor_decrement(t, pc) ==
    [t EXCEPT ![pc_hash(pc)] = IF @ > 0 THEN @ - 1 ELSE 0]

predictor_get_prediction(t, pc) == t[pc_hash(pc)] >= PRED_MID

(***************************************************************************)
(* hawkeye_cache_sim_t                                                     *)
(***************************************************************************)
\* on one set's sampler (a map from sampler tag to ADDR_INFO); the sampler
\* tag (addr >> idx_shift) | VALID is keyed by its payload
replace_addr_history_element(h, ways) ==
    LET lru_keys == {k \in DOMAIN h : h[k].lru = ways - 1}
    IN  IF lru_keys = {} THEN h ELSE map_erase(h, MinOf(lru_keys))

update_addr_history_lru_gt(h, curr_lru) ==
    [k \in DOMAIN h |-> IF h[k].lru > curr_lru THEN [h[k] EXCEPT !.lru = @ + 1] ELSE h[k]]

update_addr_history_lru(h, curr_lru) ==
    [k \in DOMAIN h |-> IF h[k].lru < curr_lru THEN [h[k] EXCEPT !.lru = @ + 1] ELSE h[k]]

\* lines 331-333: the timer, moved up by TIMER_SIZE when it is behind last_quanta
sampler_curr_timer_unadjusted(timer, last_quanta) == timer

sampler_curr_timer(timer, last_quanta) ==
    IF timer < last_quanta THEN timer + TIMER_SIZE ELSE timer

\* line 334: wrap
sampler_wrap(timer, last_quanta) ==
    (sampler_curr_timer(timer, last_quanta) - last_quanta) > OPTGEN_VECTOR_SIZE

\* lines 329-361: the sampler, OPTgen and the predictor training
hawkeye_sample(c, set, key, curr_quanta) ==
    LET hk == c.hk
        h == hk.addr_history[set]
        o == hk.perset_optgen[set]
    IN  IF key \in DOMAIN h
        THEN LET e == h[key]
                 wrap == sampler_wrap(hk.perset_timer[set], e.last_quanta)
                 last_quanta == e.last_quanta % OPTGEN_VECTOR_SIZE
                 yes == ~wrap /\ OPTgen_should_cache(o, curr_quanta, last_quanta)
                 o1 == IF wrap THEN o ELSE OPTgen_after_should_cache(o, curr_quanta, last_quanta)
             IN  [hk EXCEPT
                    !.demand_predictor = IF yes THEN predictor_increment(@, e.PC)
                                                ELSE predictor_decrement(@, e.PC),
                    !.perset_optgen[set] = OPTgen_add_access(o1, curr_quanta),
                    !.addr_history[set] = update_addr_history_lru(h, e.lru)]
        ELSE LET h1 == IF Cardinality(DOMAIN h) = c.ways
                       THEN replace_addr_history_element(h, c.ways) ELSE h
                 h2 == map_insert(h1, key, ADDR_INFO_init(curr_quanta))
             IN  [hk EXCEPT
                    !.perset_optgen[set] = OPTgen_add_access(o, curr_quanta),
                    !.addr_history[set] = update_addr_history_lru(h2, c.ways - 1)]

\* hawkeye_cache_sim_t::check_tag: the cache after the policy hook
hawkeye_hook(c, addr, pc) ==
    LET set == set_index(c, addr)
        key == tag_payload(c, addr)
        curr_quanta == c.hk.perset_timer[set] % OPTGEN_VECTOR_SIZE
        hk1 == hawkeye_sample(c, set, key, curr_quanta)
        new_prediction == predictor_get_prediction(hk1.demand_predictor, pc)
        hk2 == [hk1 EXCEPT
                  !.addr_history[set][key] =
                      [ADDR_INFO_update(@, c.hk.perset_timer[set], pc, new_prediction)
                          EXCEPT !.lru = 0],
                  !.perset_timer[set] = (@ + 1) % TIMER_SIZE]
        tag == lookup_tag(c, addr)
        ways_hit == {i \in 0 .. (c.ways - 1) : tag_match(tag, c.tags[set * c.ways + i])}
    IN  IF ways_hit = {} THEN [c EXCEPT !.hk = hk2]
        ELSE LET way == MaxOf(ways_hit)
             IN  [c EXCEPT !.hk = [hk2 EXCEPT
                       !.signatures[set][way] = pc,
                       !.rrpv[set][way] = IF new_prediction THEN 0 ELSE MAX_RRPV]]

\* hawkeye_cache_sim_t::check_tag: the pointer it returns
hawkeye_cache_sim_t_check_tag(c, addr) == cache_sim_t_check_tag(c, addr)

hawkeye_cache_sim_t_victimize(c, addr, pc) ==
    LET set == set_index(c, addr)
        r == c.hk.rrpv[set]
        averse == {i \in 0 .. (c.ways - 1) : r[i] = MAX_RRPV}
    IN  IF averse # {}
        THEN LET i == MinOf(averse)
             IN  [c |-> [c EXCEPT !.tags[set * c.ways + i] = new_tag(c, addr)],
                  victim |-> c.tags[set * c.ways + i],
                  pe |-> [path |-> 1, way |-> i,
                          old_sig |-> c.hk.signatures[set][i], dec_pc |-> -1]]
        ELSE LET max_rrip == MaxOf({r[i] : i \in 0 .. (c.ways - 1)})
                 lru_victim == MaxOf({i \in 0 .. (c.ways - 1) : r[i] = max_rrip})
                 new_prediction == predictor_get_prediction(c.hk.demand_predictor, pc)
                 sig1 == [c.hk.signatures EXCEPT ![set][lru_victim] = pc]
                 r0 == [r EXCEPT ![lru_victim] = 0]
                 saturated == \E i \in 0 .. (c.ways - 1) : r0[i] = MAX_RRPV - 1
                 aged == [i \in 0 .. (c.ways - 1) |->
                            IF ~saturated /\ r0[i] < MAX_RRPV - 1 THEN r0[i] + 1 ELSE r0[i]]
                 r1 == IF ~new_prediction THEN [r EXCEPT ![lru_victim] = MAX_RRPV]
                       ELSE [aged EXCEPT ![lru_victim] = 0]
                 dec_pc == sig1[set][lru_victim]
             IN  [c |-> [c EXCEPT
                           !.tags[set * c.ways + lru_victim] = new_tag(c, addr),
                           !.hk = [c.hk EXCEPT
                                     !.signatures = sig1,
                                     !.rrpv[set] = r1,
                                     !.demand_predictor = predictor_decrement(@, dec_pc)]],
                  victim |-> c.tags[set * c.ways + lru_victim],
                  pe |-> [path |-> 2, way |-> lru_victim,
                          old_sig |-> c.hk.signatures[set][lru_victim], dec_pc |-> dec_pc]]

(***************************************************************************)
(* The virtual calls                                                       *)
(***************************************************************************)
\* the cache after check_tag(addr): only Hawkeye's changes anything
after_check_tag(c, addr, pc) ==
    IF c.policy = "hawkeye" THEN hawkeye_hook(c, addr, pc) ELSE c

\* the pointer check_tag(addr) returns, on the cache as check_tag left it
check_tag(c, addr) ==
    IF c.policy = "fa" THEN fa_cache_sim_t_check_tag(c, addr)
    ELSE IF c.policy = "hawkeye" THEN hawkeye_cache_sim_t_check_tag(c, addr)
    ELSE cache_sim_t_check_tag(c, addr)

victimize(c, addr, pc) ==
    IF c.policy = "fa" THEN fa_cache_sim_t_victimize(c, addr)
    ELSE IF c.policy = "hawkeye" THEN hawkeye_cache_sim_t_victimize(c, addr, pc)
    ELSE IF c.policy = "linear" THEN linear_evict_cache_sim_t_victimize(c, addr)
    ELSE cache_sim_t_victimize(c, addr)

\* *hit_way |= DIRTY
mark_dirty(c, hit_way) ==
    IF hit_way = NULL THEN [c EXCEPT !.kind = "segv"]
    ELSE IF c.policy = "fa" THEN [c EXCEPT !.fa_tags[hit_way] = or_dirty(@)]
    ELSE [c EXCEPT !.tags[hit_way] = or_dirty(@)]

(***************************************************************************)
(* cache_sim_t::access                                                     *)
(***************************************************************************)
\* store ? write_accesses++ : read_accesses++; (store ? bytes_written : bytes_read) += bytes
count_access_swapped(c, bytes, store) ==
    IF store THEN [c EXCEPT !.read_accesses = @ + 1, !.bytes_written = @ + bytes]
             ELSE [c EXCEPT !.write_accesses = @ + 1, !.bytes_read = @ + bytes]

count_access(c, bytes, store) ==
    IF store THEN [c EXCEPT !.write_accesses = @ + 1, !.bytes_written = @ + bytes]
             ELSE [c EXCEPT !.read_accesses = @ + 1, !.bytes_read = @ + bytes]

\* store ? write_misses++ : read_misses++
count_miss_reads_only(c, store) ==
    IF store THEN c ELSE [c EXCEPT !.read_misses = @ + 1]

count_miss(c, store) ==
    IF store THEN [c EXCEPT !.write_misses = @ + 1] ELSE [c EXCEPT !.read_misses = @ + 1]

\* (victim & ~(VALID | DIRTY)) << idx_shift
dirty_addr(c, victim) == ShiftLeft(victim.p, c.idx_shift)

\* addr & ~(linesz-1)
refill_addr_unaligned(c, addr) == addr

refill_addr(c, addr) == BitAnd(addr, BitNot(c.linesz - 1))

Call(addr, bytes, store) == [addr |-> addr, bytes |-> bytes, store |-> store]

\* lines 159-168: the calls to the miss handler, in order
downstream_calls_refill_first(c, addr, victim) ==
    IF ~c.miss_handler THEN << >>
    ELSE <<Call(refill_addr(c, addr), c.linesz, FALSE)>>
         \o (IF valid_dirty(victim) THEN <<Call(dirty_addr(c, victim), c.linesz, TRUE)>> ELSE << >>)

downstream_calls(c, addr, victim) ==
    IF ~c.miss_handler THEN << >>
    ELSE (IF valid_dirty(victim) THEN <<Call(dirty_addr(c, victim), c.linesz, TRUE)>> ELSE << >>)
         \o <<Call(refill_addr(c, addr), c.linesz, FALSE)>>

\* lines 159-165: writebacks++ for a VALID+DIRTY victim
count_writeback_if_handler(c, victim) ==
    IF valid_dirty(victim) /\ c.miss_handler THEN [c EXCEPT !.writebacks = @ + 1] ELSE c

count_writeback(c, victim) ==
    IF valid_dirty(victim) THEN [c EXCEPT !.writebacks = @ + 1] ELSE c

\* what the sampler step of the hook did (lines 329-348): whether the line
\* was in the sampler, how many accesses and how many runs of the hook the
\* set has seen since the entry was last updated (the updating one counted),
\* whether OPTgen was asked, and how the predictor was trained for which PC
NoTraining ==
    [sampled |-> FALSE, accesses |-> 0, ticks |-> 0, asked |-> FALSE,
     pc |-> 0, trained |-> "none"]

\* what one access() did, as seen from outside; hooks is the number of
\* calls of the virtual check_tag it made (line 141, and line 171 on a store
\* miss), before and after are the policy state around the call of victimize
NoEvent ==
    [seq |-> 0, addr |-> 0, store |-> FALSE, hit |-> FALSE, repeat |-> "no",
     victim |-> ZeroTag, calls |-> << >>, mh |-> FALSE, pe |-> NoPolicyEvent,
     hooks |-> 0, stored |-> {}, age |-> << >>, train |-> NoTraining,
     before |-> << >>, after |-> << >>,
     set_misses |-> << >>]

\* what victimize can change in a Hawkeye cache: the tags and the policy tables
policy_state(c) ==
    IF c.policy = "hawkeye"
    THEN [tags |-> c.tags, rrpv |-> c.hk.rrpv, signatures |-> c.hk.signatures,
          demand_predictor |-> c.hk.demand_predictor]
    ELSE << >>

\* lines 142-147: the hit
access_hit(c2, hit_way, store) ==
    [c |-> IF store THEN mark_dirty(c2, hit_way) ELSE c2,
     hit |-> TRUE, victim |-> ZeroTag, calls |-> << >>, pe |-> NoPolicyEvent,
     hooks |-> 1, before |-> << >>, after |-> << >>]

\* line 171: *check_tag(addr) |= DIRTY, on the cache as check_tag left it
dirty_line(c5, addr) == mark_dirty(c5, check_tag(c5, addr))

\* lines 170-171: if (store) *check_tag(addr) |= DIRTY
store_dirty(c4, addr, store, pc) ==
    IF store THEN dirty_line(after_check_tag(c4, addr, pc), addr) ELSE c4

\* lines 159-171: the miss once victimize, called on c3, has returned vr
access_victimized(c, c3, vr, addr, store, pc) ==
    [c |-> store_dirty(count_writeback(vr.c, vr.victim), addr, store, pc),
     hit |-> FALSE, victim |-> vr.victim,
     calls |-> downstream_calls(c, addr, vr.victim), pe |-> vr.pe,
     hooks |-> IF store THEN 2 ELSE 1,
     before |-> policy_state(c3), after |-> policy_state(vr.c)]

\* lines 157-171: victimize(addr) on c3
access_evict(c, c3, addr, store, pc) ==
    access_victimized(c, c3, victimize(c3, addr, pc), addr, store, pc)

\* lines 149-171: the miss
access_miss(c, c2, addr, store, pc) ==
    access_evict(c, count_miss(c2, store), addr, store, pc)

\* lines 142-171: hit_way decides
access_way(c, c2, hit_way, addr, store, pc) ==
    IF hit_way # NULL THEN access_hit(c2, hit_way, store)
    ELSE access_miss(c, c2, addr, store, pc)

\* lines 141-171: c2 is the cache as check_tag(addr) left it
access_checked(c, c2, addr, store, pc) ==
    access_way(c, c2, check_tag(c2, addr), addr, store, pc)

\* the cache after access(addr, bytes, store) with the processor at pc,
\* and the event it made
access(c, addr, bytes, store, pc) ==
    access_checked(c, after_check_tag(count_access(c, bytes, store), addr, pc),
                   addr, store, pc)

\* cache_sim_t::set_miss_handler
set_miss_handler(c) == [c EXCEPT !.miss_handler = TRUE]

(***************************************************************************)
(* Inputs                                                                  *)
(***************************************************************************)
\* the caches the access streams run on: random, linear evict, fully
\* associative (ways > 4, one set) and Hawkeye
RunConfigs ==
    { <<"2", ":", "2", ":", "8">>,
      <<"2", ":", "2", ":", "8", ":", "l", "i", "n", "e", "a", "r">>,
      <<"1", ":", "5", ":", "8">>,
      <<"1", ":", "2", ":", "8", ":", "h", "a", "w", "k", "e", "y", "e">> }

\* what the processor model feeds a cache: an aligned 4-byte access to each
\* line of a range one line larger than the cache, and an unaligned access
\* inside line 0 that runs over its end
Shape(addr, bytes) == [addr |-> addr, bytes |-> bytes]

Shapes(c) ==
    {Shape(l * c.linesz, 4) : l \in 0 .. (c.sets * c.ways)}
        \cup {Shape(5, 2 * c.linesz)}

PCs == {1, 2}

MaxAccesses == 5

MaxStores == 1

\* how long a stream runs: on the fully associative cache until every way
\* is filled and one line evicted; on Hawkeye until every way has been
\* installed and referenced again and one more line misses (the first
\* eviction of a line that is not cache-averse)
AccessBudget(c) ==
    IF c.policy = "fa" THEN c.ways + 1
    ELSE IF c.policy = "hawkeye" THEN 2 * c.ways + 1
    ELSE MaxAccesses

NoStream == [addrs |-> << >>, pc |-> 0, pos |-> 0]

(***************************************************************************)
(* The access streams: a cache wired to a miss handler at set-up, and a     *)
(* twin of the same configuration, fed the same accesses, that has none    *)
(***************************************************************************)
\* the lines stored to since they were last installed (a history of the
\* accesses, kept beside the cache): line addresses addr & ~(linesz-1)
stored_lines(c, e, r, addr, store) ==
    LET line == (addr \div c.linesz) * c.linesz
        kept == IF ~r.hit /\ r.victim.v THEN e.stored \ {r.victim.p * c.linesz}
                ELSE e.stored
    IN  IF store THEN kept \cup {line}
        ELSE IF r.hit THEN kept ELSE kept \ {line}

\* for every line in a Hawkeye sampler, the accesses and the runs of the hook
\* its set has seen since the line's entry was last updated (a history kept
\* beside the cache)
sampler_age(c, e, r, addr) ==
    IF c.policy # "hawkeye" THEN << >>
    ELSE LET set == set_index(c, addr)
             key == tag_payload(c, addr)
             keys == UNION {DOMAIN r.c.hk.addr_history[s] : s \in 0 .. (c.sets - 1)}
         IN  [k \in keys |->
                IF k = key THEN [accesses |-> 1, ticks |-> 1]
                ELSE IF k \in DOMAIN r.c.hk.addr_history[set]
                     THEN [accesses |-> e.age[k].accesses + 1,
                           ticks |-> e.age[k].ticks + r.hooks]
                     ELSE e.age[k]]

\* the sampler step of the hook access() runs first (line 141), on cache c
hawkeye_training(c, e, addr) ==
    LET set == set_index(c, addr)
        key == tag_payload(c, addr)
    IN  IF c.policy # "hawkeye" THEN NoTraining
        ELSE IF key \notin DOMAIN c.hk.addr_history[set] THEN NoTraining
        ELSE LET en == c.hk.addr_history[set][key]
                 after == hawkeye_sample(c, set, key,
                                         c.hk.perset_timer[set] % OPTGEN_VECTOR_SIZE)
             IN  [sampled |-> TRUE,
                  accesses |-> e.age[key].accesses,
                  ticks |-> e.age[key].ticks,
                  asked |-> ~sampler_wrap(c.hk.perset_timer[set], en.last_quanta),
                  pc |-> en.PC,
                  trained |-> IF after.demand_predictor
                                    = predictor_decrement(c.hk.demand_predictor, en.PC)
                              THEN "dec" ELSE "inc"]

Event(c, e, r, addr, store) ==
    [seq |-> e.seq + 1, addr |-> addr, store |-> store, hit |-> r.hit,
     repeat |-> IF e.seq = 0 \/ (e.addr \div c.linesz) # (addr \div c.linesz) THEN "no"
                ELSE IF e.addr = addr THEN "addr" ELSE "line",
     victim |-> r.victim, calls |-> r.calls, mh |-> c.miss_handler, pe |-> r.pe,
     hooks |-> r.hooks, stored |-> stored_lines(c, e, r, addr, store),
     age |-> sampler_age(c, e, r, addr), train |-> hawkeye_training(c, e, addr),
     before |-> r.before, after |-> r.after, set_misses |-> e.set_misses]

\* both caches take the outcomes r and rt of the same access
StepTo(r, rt, addr, store) ==
    /\ cache' = r.c
    /\ twin' = rt.c
    /\ ev' = Event(cache, ev, r, addr, store)
    /\ tev' = Event(twin, tev, rt, addr, store)

Step(addr, bytes, store, pc) ==
    /\ cache.kind = "cache"
    /\ StepTo(access(cache, addr, bytes, store, pc),
              access(twin, addr, bytes, store, pc), addr, store)

Init ==
    /\ config \in RunConfigs
    /\ cache = set_miss_handler(construct(config))
    /\ twin = construct(config)
    /\ ev = NoEvent
    /\ tev = NoEvent
    /\ stream = NoStream

Access ==
    /\ cache.kind = "cache"
    /\ ev.seq < AccessBudget(cache)
    /\ \E sh \in Shapes(cache), store \in BOOLEAN, pc \in PCs :
          /\ store => cache.write_accesses < MaxStores
          /\ Step(sh.addr, sh.bytes, store, pc)
    /\ UNCHANGED <<config, stream>>

Next == Access

Spec == Init /\ [][Next]_vars

(***************************************************************************)
(* Construction from a configuration string                                *)
(***************************************************************************)
SetsFields ==
    { <<"1">>, <<"2">>, <<"3">>, <<"0">>, << >>, <<"-", "2">>, <<"x">>,
      <<"2", "x">>, <<"1", "6">>, <<"\t", "2">> }

WaysFields ==
    { <<"1">>, <<"2">>, <<"5">>, <<"0">>, << >>, <<"x">>, <<"-", "1">>,
      <<" ", "\n", "2">> }

LineFields ==
    { <<"8">>, <<"1", "6">>, <<"4">>, <<"1", "2">>, <<"0">>, <<"6", "4">>,
      <<"8", "x">>, << >>, <<"\r", "8">> }

Suffixes ==
    { << >>, <<":">> \o StrLinear, <<":">> \o StrHawkeye, <<":", "f", "o", "o">>,
      <<":">>, <<":">> \o StrLinear \o <<"x">> }

FewColons == { << >>, <<"2">>, <<":">>, <<"2", ":">>, <<"2", ":", "2">> }

AllConfigs ==
    { s \o <<":">> \o w \o <<":">> \o l \o x :
        s \in SetsFields, w \in WaysFields, l \in LineFields, x \in Suffixes }
        \cup FewColons

InitConstruct ==
    /\ config \in AllConfigs
    /\ cache = NoCache
    /\ twin = NoCache
    /\ ev = NoEvent
    /\ tev = NoEvent
    /\ stream = NoStream

Construct ==
    /\ cache = NoCache
    /\ cache' = construct(config)
    /\ UNCHANGED <<config, twin, ev, tev, stream>>

NextConstruct == Construct

SpecConstruct == InitConstruct /\ [][NextConstruct]_vars

(***************************************************************************)
(* Scenario S6: Hawkeye 1:4:64, no miss handler, a constant PC and reads   *)
(* cycling through four distinct line-aligned addresses                    *)
(***************************************************************************)
S6Config == <<"1", ":", "4", ":", "6", "4", ":">> \o StrHawkeye

S6Streams == { <<0, 64, 128, 192>>, <<64, 0, 192, 128>>, <<192, 128, 64, 0>> }

\* the pattern A,B,C,D,A,B,C,D four times
S6Len == 32

InitS6 ==
    /\ config = S6Config
    /\ cache = construct(config)
    /\ twin = construct(config)
    /\ ev = NoEvent
    /\ tev = NoEvent
    /\ stream \in [addrs : S6Streams, pc : PCs, pos : {0}]

StreamAccess ==
    /\ stream.pos < S6Len
    /\ Step(stream.addrs[(stream.pos % 4) + 1], 8, FALSE, stream.pc)
    /\ stream' = [stream EXCEPT !.pos = @ + 1]
    /\ UNCHANGED config

NextS6 == StreamAccess

SpecS6 == InitS6 /\ [][NextS6]_vars

(***************************************************************************)
(* A Hawkeye set across a full turn of its timer: two lines of a 1:2:8     *)
(* cache, so that a sampler entry can stay while the other line is used    *)
(***************************************************************************)
TimerConfig == <<"1", ":", "2", ":", "8", ":">> \o StrHawkeye

TimerLines == {0, 8}

\* TIMER_SIZE accesses after the first one
TimerRunLen == 9

InitTimer ==
    /\ config = TimerConfig
    /\ cache = set_miss_handler(construct(config))
    /\ twin = construct(config)
    /\ ev = NoEvent
    /\ tev = NoEvent
    /\ stream = NoStream

TimerAccess ==
    /\ ev.seq < TimerRunLen
    /\ \E addr \in TimerLines, store \in BOOLEAN :
          /\ store => cache.write_accesses < MaxStores
          /\ Step(addr, 4, store, 1)
    /\ UNCHANGED <<config, stream>>

NextTimer == TimerAccess

SpecTimer == InitTimer /\ [][NextTimer]_vars

(***************************************************************************)
(* The access streams on caches of two sets for every policy that has sets, *)
(* and on the fully associative cache                                      *)
(***************************************************************************)
SetsConfigs ==
    { <<"2", ":", "2", ":", "8">>,
      <<"2", ":", "2", ":", "8", ":">> \o StrLinear,
      <<"1", ":", "5", ":", "8">>,
      <<"2", ":", "2", ":", "8", ":">> \o StrHawkeye }

InitSets ==
    /\ config \in SetsConfigs
    /\ cache = set_miss_handler(construct(config))
    /\ twin = construct(config)
    /\ ev = NoEvent
    /\ tev = NoEvent
    /\ stream = NoStream

\* the streams of Access, all from one PC
SetsAccess ==
    /\ cache.kind = "cache"
    /\ ev.seq < AccessBudget(cache)
    /\ \E sh \in Shapes(cache), store \in BOOLEAN :
          /\ store => cache.write_accesses < MaxStores
          /\ Step(sh.addr, sh.bytes, store, 1)
    /\ UNCHANGED <<config, stream>>

NextSets == SetsAccess

SpecSets == InitSets /\ [][NextSets]_vars

(***************************************************************************)
(* cache_sim_t(const cache_sim_t& rhs): the source takes some accesses, is  *)
(* copied, and then source and copy take the same accesses                 *)
(***************************************************************************)
Counters ==
    {"read_accesses", "read_misses", "bytes_read", "write_accesses",
     "write_misses", "bytes_written", "writebacks"}

\* what a member the constructor never writes may hold
MaxGarbage == 1

Garbage == 0 .. MaxGarbage

\* the initialiser list and the body: sets, ways, linesz, idx_shift and the
\* tag array come from rhs; lfsr is default-constructed; the counters and
\* miss_handler are not initialised and hold whatever g and handler say
\* (handler: the pointer left in the slot is not NULL)
cache_sim_t_copy(rhs, g, handler) ==
    [kind |-> "cache", policy |-> "random",
     sets |-> rhs.sets, ways |-> rhs.ways, linesz |-> rhs.linesz,
     idx_shift |-> rhs.idx_shift,
     lfsr |-> lfsr_t,
     tags |-> [i \in 0 .. (rhs.sets * rhs.ways - 1) |-> rhs.tags[i]],
     read_accesses |-> g["read_accesses"], read_misses |-> g["read_misses"],
     bytes_read |-> g["bytes_read"],
     write_accesses |-> g["write_accesses"], write_misses |-> g["write_misses"],
     bytes_written |-> g["bytes_written"],
     writebacks |-> g["writebacks"],
     miss_handler |-> handler,
     fa_tags |-> << >>,
     evict_candidate |-> << >>,
     hk |-> << >>]

CopyConfigs == { <<"1", ":", "3", ":", "8">>, <<"2", ":", "2", ":", "8">> }

CopySourceLen == 2

CopyAfterLen == 1

InitCopy ==
    /\ config \in CopyConfigs
    /\ cache = construct(config)
    /\ twin = NoCache
    /\ ev = NoEvent
    /\ tev = NoEvent
    /\ stream = NoStream

SourceStep(r, addr, store) ==
    /\ cache' = r.c
    /\ ev' = Event(cache, ev, r, addr, store)

SourceAccess ==
    /\ cache.kind = "cache"
    /\ twin = NoCache
    /\ ev.seq < CopySourceLen
    /\ \E sh \in Shapes(cache), store \in BOOLEAN :
          /\ store => cache.write_accesses < MaxStores
          /\ SourceStep(access(cache, sh.addr, sh.bytes, store, 1), sh.addr, store)
    /\ UNCHANGED <<config, twin, tev, stream>>

CopyConstruct ==
    /\ cache.kind = "cache"
    /\ twin = NoCache
    /\ \E g \in [Counters -> Garbage], handler \in BOOLEAN :
          twin' = cache_sim_t_copy(cache, g, handler)
    /\ UNCHANGED <<config, cache, ev, tev, stream>>

\* lines 161-168 on the copy: miss_handler->access(...) through a pointer
\* that was never set either reaches something that takes the call or
\* ends the process
wild_call(rt, crash) ==
    IF crash THEN [rt EXCEPT !.c = [rt.c EXCEPT !.kind = "segv"]] ELSE rt

\* the source and the copy take the same access, with outcomes r and rt
PairStep(r, rt, crash, addr) ==
    /\ crash => (twin.miss_handler /\ ~rt.hit)
    /\ StepTo(r, wild_call(rt, crash), addr, FALSE)

PairAccess ==
    /\ cache.kind = "cache"
    /\ twin.kind = "cache"
    /\ tev.seq < CopyAfterLen
    /\ \E sh \in Shapes(cache), crash \in BOOLEAN :
          PairStep(access(cache, sh.addr, sh.bytes, FALSE, 1),
                   access(twin, sh.addr, sh.bytes, FALSE, 1), crash, sh.addr)
    /\ UNCHANGED <<config, stream>>

NextCopy == SourceAccess \/ CopyConstruct \/ PairAccess

SpecCopy == InitCopy /\ [][NextCopy]_vars

(***************************************************************************)
(* Linear evict with three ways: four lines of set 0 and one line of set 1, *)
(* with the misses of every set counted alongside the cache                *)
(***************************************************************************)
LinearConfig == <<"2", ":", "3", ":", "8", ":">> \o StrLinear

LinearLines == {0, 16, 32, 48, 8}

LinearRunLen == 6

InitLinear ==
    /\ config = LinearConfig
    /\ cache = set_miss_handler(construct(config))
    /\ twin = construct(config)
    /\ ev = [NoEvent EXCEPT !.set_misses = [s \in 0 .. (cache.sets - 1) |-> 0]]
    /\ tev = NoEvent
    /\ stream = NoStream

\* the misses so far in every set, after an access with outcome r
count_set_miss(c, misses, r, addr) ==
    IF r.hit THEN misses
    ELSE [misses EXCEPT ![set_index(c, addr)] = @ + 1]

LinearStep(r, addr, store) ==
    /\ cache' = r.c
    /\ ev' = [Event(cache, ev, r, addr, store)
                EXCEPT !.set_misses = count_set_miss(cache, ev.set_misses, r, addr)]

LinearAccess ==
    /\ cache.kind = "cache"
    /\ ev.seq < LinearRunLen
    /\ \E addr \in LinearLines, store \in BOOLEAN :
          /\ store => cache.write_accesses < MaxStores
          /\ LinearStep(access(cache, addr, 4, store, 1), addr, store)
    /\ UNCHANGED <<config, twin, tev, stream>>

NextLinear == LinearAccess

SpecLinear == InitLinear /\ [][NextLinear]_vars

(***************************************************************************)
(* A two-level chain: cache is L1, twin is L2, the miss handler of L1; L2  *)
(* has a larger line, no handler of its own, and is accessed by L1 alone   *)
(***************************************************************************)
L2Config == <<"2", ":", "2", ":", "1", "6">>

\* miss_handler->access(...) for the calls of one L1 access, in order
RECURSIVE handler_accesses(_, _, _)
handler_accesses(l2, calls, pc) ==
    IF calls = << >> THEN l2
    ELSE handler_accesses(
            access(l2, Head(calls).addr, Head(calls).bytes, Head(calls).store, pc).c,
            Tail(calls), pc)

InitChain ==
    /\ config \in RunConfigs
    /\ cache = set_miss_handler(construct(config))
    /\ twin = construct(L2Config)
    /\ ev = NoEvent
    /\ tev = NoEvent
    /\ stream = NoStream

\* r is the outcome of the access on L1
ChainStep(r, addr, store, pc) ==
    /\ cache' = r.c
    /\ twin' = handler_accesses(twin, r.calls, pc)
    /\ ev' = Event(cache, ev, r, addr, store)

ChainAccess ==
    /\ cache.kind = "cache"
    /\ ev.seq < AccessBudget(cache)
    /\ \E sh \in Shapes(cache), store \in BOOLEAN, pc \in PCs :
          /\ store => cache.write_accesses < MaxStores
          /\ ChainStep(access(cache, sh.addr, sh.bytes, store, pc), sh.addr, store, pc)
    /\ UNCHANGED <<config, tev, stream>>

NextChain == ChainAccess

SpecChain == InitChain /\ [][NextChain]_vars

(***************************************************************************)
(* Properties                                                              *)
(***************************************************************************)
IsCache(c) == c.kind = "cache"

\* the tag slots of set s: the ways of the array, or the entries of the map
SlotsOfSet(c, s) ==
    IF c.policy = "fa" THEN {c.fa_tags[k] : k \in DOMAIN c.fa_tags}
    ELSE {c.tags[s * c.ways + w] : w \in 0 .. (c.ways - 1)}

\* the number of VALID slots of set s holding payload p
ValidCopies(c, s, p) ==
    IF c.policy = "fa"
    THEN Cardinality({k \in DOMAIN c.fa_tags : c.fa_tags[k].v /\ c.fa_tags[k].p = p})
    ELSE Cardinality({w \in 0 .. (c.ways - 1) :
                        c.tags[s * c.ways + w].v /\ c.tags[s * c.ways + w].p = p})

\* the tag slots with the DIRTY bit masked out
Payloads(c) ==
    IF c.policy = "fa" THEN [k \in DOMAIN c.fa_tags |-> [c.fa_tags[k] EXCEPT !.d = FALSE]]
    ELSE [i \in DOMAIN c.tags |-> [c.tags[i] EXCEPT !.d = FALSE]]

LineAddr(c, addr) == (addr \div c.linesz) * c.linesz

\* C1: in every reachable state, for every policy, no two VALID tag slots of
\* a set hold the same tag payload (the DIRTY bit left out of the comparison).
C1_NoDuplicateTags ==
    IsCache(cache) =>
        \A s \in 0 .. (cache.sets - 1) :
            \A w \in SlotsOfSet(cache, s) : w.v => ValidCopies(cache, s, w.p) = 1

\* a miss has replaced a VALID line of a set whose slots are all VALID
C1_Witness ==
    /\ IsCache(cache)
    /\ ev.seq > 0 /\ ~ev.hit /\ ev.victim.v
    /\ \A w \in SlotsOfSet(cache, set_index(cache, ev.addr)) : w.v

\* C2: every call to the miss handler has an address that is a multiple of
\* linesz and bytes = linesz; it is a store exactly when it writes back the
\* VALID+DIRTY victim's line, a read exactly when it refills the missed line.
C2_DownstreamCallsAligned ==
    IsCache(cache) =>
        \A i \in 1 .. Len(ev.calls) :
            LET call == ev.calls[i]
            IN  /\ call.addr % cache.linesz = 0
                /\ call.bytes = cache.linesz
                /\ IF call.store
                   THEN ~ev.hit /\ ev.victim.v /\ ev.victim.d
                        /\ call.addr = ev.victim.p * cache.linesz
                   ELSE ~ev.hit /\ call.addr = LineAddr(cache, ev.addr)

\* an unaligned access missed, wrote its victim back and refilled its line
C2_Witness ==
    /\ IsCache(cache)
    /\ ev.addr % cache.linesz # 0
    /\ Len(ev.calls) = 2
    /\ ev.calls[1].store /\ ~ev.calls[2].store

\* C3: with a miss handler wired, an access makes no call on a hit, exactly
\* the refill read on a miss whose victim is not VALID+DIRTY, and on a miss
\* whose victim is VALID+DIRTY the writeback store and then the refill read.
C3_CallsPerAccess ==
    (IsCache(cache) /\ ev.seq > 0 /\ ev.mh) =>
        IF ev.hit THEN ev.calls = << >>
        ELSE IF ev.victim.v /\ ev.victim.d
             THEN ev.calls = <<Call(ev.victim.p * cache.linesz, cache.linesz, TRUE),
                               Call(LineAddr(cache, ev.addr), cache.linesz, FALSE)>>
             ELSE ev.calls = <<Call(LineAddr(cache, ev.addr), cache.linesz, FALSE)>>

\* a miss with a miss handler wired evicted a VALID+DIRTY line of another address
C3_Witness ==
    /\ IsCache(cache)
    /\ ev.mh /\ ~ev.hit /\ ev.victim.v /\ ev.victim.d
    /\ Len(ev.calls) = 2
    /\ ev.calls[1].addr # ev.calls[2].addr

\* C4: an access that immediately follows an access to the same line is a
\* hit: neither miss counter moves, nothing is written back and no tag slot
\* changes its payload.
C4_RepeatedLineHits ==
    [][ (IsCache(cache) /\ ev'.seq = ev.seq + 1 /\ ev'.repeat # "no") =>
            /\ ev'.hit
            /\ cache'.read_misses = cache.read_misses
            /\ cache'.write_misses = cache.write_misses
            /\ cache'.writebacks = cache.writebacks
            /\ Payloads(cache') = Payloads(cache)
            /\ ev'.calls = << >> ]_vars

\* a store to another address of the line just read has hit
C4_Witness ==
    /\ IsCache(cache)
    /\ ev.repeat = "line" /\ ev.hit /\ ev.store
    /\ cache.read_misses = 1 /\ cache.write_misses = 0

\* C6: read_misses <= read_accesses, write_misses <= write_accesses and
\* writebacks <= read_misses + write_misses, in every reachable state.
C6_CounterBounds ==
    IsCache(cache) =>
        /\ cache.read_misses <= cache.read_accesses
        /\ cache.write_misses <= cache.write_accesses
        /\ cache.writebacks <= cache.read_misses + cache.write_misses

\* hits, misses of both kinds and a writeback have all been counted
C6_Witness ==
    /\ IsCache(cache)
    /\ cache.writebacks >= 1
    /\ cache.write_misses >= 1
    /\ cache.read_misses >= 1
    /\ cache.read_misses < cache.read_accesses

\* C7: for every set of a Hawkeye cache the sampler holds at most `ways`
\* entries and the lru fields of its n entries are the n values 0..n-1.
C7_SamplerLruPermutation ==
    (IsCache(cache) /\ cache.policy = "hawkeye") =>
        \A s \in 0 .. (cache.sets - 1) :
            LET h == cache.hk.addr_history[s]
                n == Cardinality(DOMAIN h)
            IN  /\ n <= cache.ways
                /\ \A k \in DOMAIN h : h[k].lru \in 0 .. (n - 1)
                /\ \A j, k \in DOMAIN h : h[j].lru = h[k].lru => j = k

\* a full sampler has replaced its entry with lru = ways-1: a line still in
\* the tag array is no longer sampled
C7_Witness ==
    /\ IsCache(cache) /\ cache.policy = "hawkeye"
    /\ \E s \in 0 .. (cache.sets - 1) :
          /\ Cardinality(DOMAIN cache.hk.addr_history[s]) = cache.ways
          /\ \E w \in 0 .. (cache.ways - 1) :
                /\ cache.tags[s * cache.ways + w].v
                /\ cache.tags[s * cache.ways + w].p \notin DOMAIN cache.hk.addr_history[s]

SameStatistics(a, b) ==
    /\ a.read_accesses = b.read_accesses /\ a.write_accesses = b.write_accesses
    /\ a.read_misses = b.read_misses /\ a.write_misses = b.write_misses
    /\ a.bytes_read = b.bytes_read /\ a.bytes_written = b.bytes_written
    /\ a.writebacks = b.writebacks

\* C8: a cache without a miss handler makes no downstream call, counts one
\* writeback for every VALID+DIRTY victim all the same, and after every
\* access its counters and tags equal those of the cache that has a handler.
C8_NoHandlerSameState ==
    [][ (IsCache(twin) /\ tev'.seq = tev.seq + 1) =>
            /\ ~twin'.miss_handler /\ cache'.miss_handler
            /\ tev'.calls = << >>
            /\ twin'.writebacks = twin.writebacks
                  + (IF ~tev'.hit /\ tev'.victim.v /\ tev'.victim.d THEN 1 ELSE 0)
            /\ SameStatistics(twin', cache')
            /\ twin'.tags = cache'.tags
            /\ twin'.fa_tags = cache'.fa_tags ]_vars

\* the cache without a handler has evicted a VALID+DIRTY line, where the
\* wired cache called its handler twice
C8_Witness ==
    /\ IsCache(twin)
    /\ ~tev.hit /\ tev.victim.v /\ tev.victim.d
    /\ tev.calls = << >>
    /\ Len(ev.calls) = 2
    /\ twin.writebacks = 1

(***************************************************************************)
(* The configuration grammar, sets ":" ways ":" linesz [":" policy]        *)
(***************************************************************************)
RECURSIVE Fields(_)
Fields(s) ==
    LET i == strchr(s, 1, ":")
    IN  IF i = 0 THEN <<s>>
        ELSE <<SubSeq(s, 1, i - 1)>> \o Fields(SubSeq(s, i + 1, Len(s)))

RECURSIVE DecimalValue(_)
DecimalValue(f) ==
    IF f = << >> THEN 0
    ELSE 10 * DecimalValue(SubSeq(f, 1, Len(f) - 1)) + DigitValue(f[Len(f)])

PositiveInteger(f) ==
    /\ f # << >>
    /\ \A i \in 1 .. Len(f) : IsDigit(f[i])
    /\ DecimalValue(f) > 0

PowerOfTwo(n) == \E k \in 0 .. 30 : n = Pow2(k)

GrammarValid(cfg) ==
    LET f == Fields(cfg)
    IN  /\ Len(f) \in {3, 4}
        /\ \A i \in 1 .. 3 : PositiveInteger(f[i])
        /\ PowerOfTwo(DecimalValue(f[1]))
        /\ PowerOfTwo(DecimalValue(f[3]))
        /\ DecimalValue(f[3]) >= 8
        /\ Len(f) = 4 => f[4] \in {StrLinear, StrHawkeye}

\* C9: construct ends in the usage path (usage message, exit status 1) for
\* every config string that violates the grammar or the validation rules,
\* and returns a cache only for a valid config.
C9_UsageOnEveryInvalidConfig ==
    cache # NoCache =>
        IF GrammarValid(config) THEN IsCache(cache) ELSE cache = help

\* C5: in scenario S6 the stream reaches a point after which every access
\* is a hit; by the end of the four repetitions of the pattern the accesses hit.
C5_S6EventuallyHits == stream.pos = S6Len => ev.hit

\* C10: when Hawkeye evicts the way of maximum RRPV (no way at MAX_RRPV),
\* the predictor counter it decrements is that of the PC held in
\* signatures[set][evicted_way] before the eviction.
C10_TrainsEvictedSignature ==
    (IsCache(cache) /\ ev.pe.path = 2) => ev.pe.dec_pc = ev.pe.old_sig

\* C11: every access on a Hawkeye cache, read or store, hit or miss, runs the
\* policy hook exactly once: the timer of the addressed set advances by
\* exactly 1 modulo TIMER_SIZE and the timers of the other sets do not move.
C11_HookOncePerAccess ==
    [][ (IsCache(cache) /\ cache.policy = "hawkeye" /\ ev'.seq = ev.seq + 1) =>
            /\ ev'.hooks = 1
            /\ \A s \in 0 .. (cache.sets - 1) :
                  cache'.hk.perset_timer[s] =
                      IF s = set_index(cache, ev'.addr)
                      THEN (cache.hk.perset_timer[s] + 1) % TIMER_SIZE
                      ELSE cache.hk.perset_timer[s] ]_vars

\* C12: for every policy, a miss increments writebacks (and calls the miss
\* handler with a store, if one is wired) exactly when it evicts a VALID line
\* that a store has touched since the line was installed; the store goes to
\* that line's aligned address; a stream of reads alone leaves writebacks = 0.
C12_WritebackIffStored ==
    [][ (IsCache(cache) /\ ev'.seq = ev.seq + 1) =>
            LET line == ev'.victim.p * cache.linesz
                evicts_stored == ~ev'.hit /\ ev'.victim.v /\ line \in ev.stored
                store_calls == {i \in 1 .. Len(ev'.calls) : ev'.calls[i].store}
            IN  /\ cache'.writebacks = cache.writebacks + (IF evicts_stored THEN 1 ELSE 0)
                /\ twin'.writebacks = twin.writebacks + (IF evicts_stored THEN 1 ELSE 0)
                /\ (store_calls # {}) = evicts_stored
                /\ \A i \in store_calls : ev'.calls[i].addr = line
                /\ cache'.write_accesses = 0 => cache'.writebacks = 0 ]_vars

\* a line installed by a read and then stored to on a hit has been evicted
\* and written back
C12_Witness ==
    /\ IsCache(cache)
    /\ ~ev.hit /\ ev.victim.v /\ ev.victim.d
    /\ cache.write_misses = 0 /\ cache.write_accesses = 1
    /\ cache.writebacks = 1
    /\ ev.stored = {}

\* C13 as stated: on a sampler hit, whenever more than OPTGEN_VECTOR_SIZE
\* accesses to the set have occurred since the entry was last updated (a
\* count of TIMER_SIZE or more included), OPTgen is not asked and the
\* counter of the entry's PC is decremented.
C13_StaleIntervalUncacheable ==
    (IsCache(cache) /\ ev.train.sampled /\ ev.train.accesses > OPTGEN_VECTOR_SIZE) =>
        /\ ~ev.train.asked
        /\ ev.train.trained = "dec"

\* C13 amended: on a sampler hit, whenever the number of runs of the hook on
\* the set since the entry was last updated, taken modulo TIMER_SIZE, is more
\* than OPTGEN_VECTOR_SIZE, OPTgen is not asked and the counter of the
\* entry's PC is decremented.
C13_StaleIntervalModuloTimer ==
    (IsCache(cache) /\ ev.train.sampled
        /\ ev.train.ticks % TIMER_SIZE > OPTGEN_VECTOR_SIZE) =>
        /\ ~ev.train.asked
        /\ ev.train.trained = "dec"

\* a sampler hit after the timer has passed its end: the timer is behind
\* the entry's last_quanta and the interval is refused
C13_Witness ==
    /\ IsCache(cache)
    /\ ev.train.sampled
    /\ ev.train.ticks > OPTGEN_VECTOR_SIZE /\ ev.train.ticks < TIMER_SIZE
    /\ ev.seq > TIMER_SIZE - 2
    /\ ~ev.train.asked /\ ev.train.trained = "dec"

\* C14: when Hawkeye's victimize finds a way of the set with rrpv = MAX_RRPV,
\* it replaces the lowest such way by the new tag (VALID, not DIRTY), returns
\* the displaced tag word and changes no other tag slot, no rrpv, no
\* signature and no predictor counter.
C14_AverseWayReplacedAlone ==
    (IsCache(cache) /\ cache.policy = "hawkeye" /\ ev.seq > 0 /\ ~ev.hit) =>
        LET set == set_index(cache, ev.addr)
            averse == {w \in 0 .. (cache.ways - 1) : ev.before.rrpv[set][w] = MAX_RRPV}
            slot == set * cache.ways + MinOf(averse)
        IN  averse # {} =>
              /\ ev.after.tags[slot] = [v |-> TRUE, d |-> FALSE,
                                         p |-> ev.addr \div cache.linesz]
              /\ ev.victim = ev.before.tags[slot]
              /\ \A i \in DOMAIN ev.before.tags :
                    i # slot => ev.after.tags[i] = ev.before.tags[i]
              /\ ev.after.rrpv = ev.before.rrpv
              /\ ev.after.signatures = ev.before.signatures
              /\ ev.after.demand_predictor = ev.before.demand_predictor

\* both ways were at MAX_RRPV, one of them holding a line set by the hook
\* of a hit, and way 0 with its VALID line was displaced
C14_Witness ==
    /\ IsCache(cache) /\ cache.policy = "hawkeye"
    /\ ev.seq > 0 /\ ~ev.hit
    /\ \A w \in 0 .. (cache.ways - 1) : ev.before.rrpv[0][w] = MAX_RRPV
    /\ ev.victim.v
    /\ ev.after.tags[0] # ev.before.tags[0]
    /\ ev.before.signatures[0][0] # 0

\* C15: with L2 the miss handler of L1 and accessed by L1 alone, after any
\* access stream to L1: L2.read_accesses = L1.read_misses + L1.write_misses,
\* L2.write_accesses = L1.writebacks, L2.bytes_read = L1.linesz times the L1
\* misses and L2.bytes_written = L1.linesz times the L1 writebacks.
C15_ChainCounters ==
    (IsCache(cache) /\ IsCache(twin)) =>
        /\ twin.read_accesses = cache.read_misses + cache.write_misses
        /\ twin.write_accesses = cache.writebacks
        /\ twin.bytes_read = cache.linesz * (cache.read_misses + cache.write_misses)
        /\ twin.bytes_written = cache.linesz * cache.writebacks

\* L1 has missed on reads and on a store and written a line back; L2 has
\* taken the store and has hit on a refill
C15_Witness ==
    /\ IsCache(cache) /\ IsCache(twin)
    /\ cache.write_misses >= 1 /\ cache.read_misses >= 1
    /\ cache.writebacks >= 1
    /\ twin.write_accesses >= 1
    /\ twin.read_misses < twin.read_accesses
    /\ twin.linesz # cache.linesz

\* C16: under linear evict every per-set cursor starts at 0 and the k-th miss
\* (k = 0, 1, 2, ...) in a set replaces way k mod ways of that set; hits in
\* the set and accesses to other sets do not move the set's cursor.
C16_LinearCursor ==
    (IsCache(cache) /\ cache.policy = "linear") =>
        /\ \A s \in 0 .. (cache.sets - 1) :
              cache.evict_candidate[s] = ev.set_misses[s] % cache.ways
        /\ (ev.seq > 0 /\ ~ev.hit) =>
              /\ ev.pe.way = (ev.set_misses[set_index(cache, ev.addr)] - 1) % cache.ways
              /\ cache.tags[set_index(cache, ev.addr) * cache.ways + ev.pe.way].p
                    = ev.addr \div cache.linesz

\* the fourth miss of set 0 has wrapped to way 0, after a miss in set 1 and
\* a hit
C16_Witness ==
    /\ IsCache(cache) /\ cache.policy = "linear"
    /\ ~ev.hit /\ set_index(cache, ev.addr) = 0
    /\ ev.set_misses[0] = cache.ways + 1 /\ ev.pe.way = 0
    /\ ev.set_misses[1] = 1
    /\ ev.seq = cache.ways + 3

\* the entries of the mapping m that are gone from the mapping n
Removed(m, n) == (DOMAIN m) \ (DOMAIN n)

\* the key at position pos (from 0) of the keys in ascending order
KeyAt(keys, pos) == {k \in keys : Cardinality({j \in keys : j < k}) = pos}

\* C17: the fully associative mapping never holds more than ways entries; an
\* entry is removed only by a miss that finds exactly ways entries, and then
\* exactly the entry at position lfsr.next() % ways in ascending tag-payload
\* order is removed and returned; so the lines installed stay resident until
\* a further distinct line misses on the full mapping.
C17_FaMapping ==
    [][ (IsCache(cache) /\ cache.policy = "fa" /\ ev'.seq = ev.seq + 1) =>
          /\ Cardinality(DOMAIN cache'.fa_tags) <= cache.ways
          /\ IF ~ev'.hit /\ Cardinality(DOMAIN cache.fa_tags) = cache.ways
             THEN /\ Removed(cache.fa_tags, cache'.fa_tags)
                       = KeyAt(DOMAIN cache.fa_tags,
                               lfsr_mod(lfsr_next(cache.lfsr), cache.ways))
                  /\ Cardinality(Removed(cache.fa_tags, cache'.fa_tags)) = 1
                  /\ \A k \in Removed(cache.fa_tags, cache'.fa_tags) :
                        ev'.victim = cache.fa_tags[k]
                  /\ tag_payload(cache, ev'.addr) \in DOMAIN cache'.fa_tags
             ELSE Removed(cache.fa_tags, cache'.fa_tags) = {}
      ]_vars

\* the mapping was full, a further line missed and a valid entry came back
C17_Witness ==
    /\ IsCache(cache) /\ cache.policy = "fa"
    /\ ~ev.hit /\ ev.victim.v
    /\ ev.seq = cache.ways + 1
    /\ Cardinality(DOMAIN cache.fa_tags) = cache.ways
    /\ ev.victim.p \notin DOMAIN cache.fa_tags

\* the tag slots of the array that differ between the caches c and d
ChangedSlots(c, d) == {i \in DOMAIN c.tags : c.tags[i] # d.tags[i]}

\* the entries of the fully associative mapping that differ between c and d
ChangedEntries(c, d) ==
    {k \in DOMAIN c.fa_tags : k \notin DOMAIN d.fa_tags \/ c.fa_tags[k] # d.fa_tags[k]}

\* C18: access(addr, ...) changes tag slots only in the set indexed by
\* (addr >> offset_bits) & (sets-1), at most one of them; the tag slots of
\* every other set are unchanged, and for Hawkeye the rrpv, signatures,
\* perset_timer and addr_history of every other set are unchanged as well.
C18_OnlyIndexedSetChanges ==
    [][ (IsCache(cache) /\ ev'.seq = ev.seq + 1) =>
          /\ \A i \in ChangedSlots(cache, cache') :
                i \div cache.ways = (ev'.addr \div cache.linesz) % cache.sets
          /\ Cardinality(ChangedSlots(cache, cache')) <= 1
          /\ Cardinality(ChangedEntries(cache, cache')) <= 1
          /\ cache.policy = "hawkeye" =>
                \A s \in 0 .. (cache.sets - 1) :
                    s # (ev'.addr \div cache.linesz) % cache.sets =>
                        /\ cache'.hk.rrpv[s] = cache.hk.rrpv[s]
                        /\ cache'.hk.signatures[s] = cache.hk.signatures[s]
                        /\ cache'.hk.perset_timer[s] = cache.hk.perset_timer[s]
                        /\ cache'.hk.addr_history[s] = cache.hk.addr_history[s]
      ]_vars

\* a Hawkeye cache of two sets, set 0 used and holding sampler entries, has
\* just replaced a valid line of set 1
C18_Witness ==
    /\ IsCache(cache) /\ cache.policy = "hawkeye" /\ cache.sets = 2
    /\ ~ev.hit /\ ev.victim.v
    /\ (ev.addr \div cache.linesz) % cache.sets = 1
    /\ cache.hk.perset_timer[0] > 0
    /\ DOMAIN cache.hk.addr_history[0] # {}
    /\ cache.tags[0].v

\* C19: copy-constructing a cache from a cache in any reachable state yields
\* a cache whose tag array has the contents of the source's and whose seven
\* statistics counters are all zero.
C19_CopyTagsAndZeroCounters ==
    (IsCache(cache) /\ IsCache(twin) /\ tev.seq = 0) =>
        /\ twin.tags = cache.tags
        /\ \A n \in Counters : twin[n] = 0

\* C20: copy-construction preserves the LFSR register: a default-random cache
\* copied from a source after any number of misses, fed the same subsequent
\* accesses as the source, chooses the same victim ways as the source.
C20_CopyChoosesSameWays ==
    (IsCache(cache) /\ IsCache(twin) /\ tev.seq > 0) =>
        /\ tev.hit = ev.hit
        /\ ~ev.hit => tev.pe.way = ev.pe.way

====
